---------------------------- MODULE Spec2Model ----------------------------
(***************************************************************************)
(* The extensible integer enumerations of twilight-model: newtype wrappers *)
(* around a u8 with associated constants, an optional name, a Debug        *)
(* rendering, conversions from and to u8 and derived equality, hashing,    *)
(* ordering and serialization.                                             *)
(*                                                                         *)
(* A value `T(raw)` is the record [type |-> "T", f0 |-> raw]; f0 is the    *)
(* tuple field `.0`.  Option is a sequence of length 0 or 1.               *)
(***************************************************************************)
EXTENDS Integers, Sequences, FiniteSets, TLC

VARIABLES
    val,      \* the enumeration value in scope, or NoValue
    built,    \* how val was constructed: the path, the integer given, the constant used
    out,      \* the result of the operation last applied to val
    failed,   \* TRUE when the last decode was rejected
    obs,      \* per reader, the operation it last ran on the shared value and its result
    event,    \* the GuildScheduledEvent in scope, or NoEvent
    evout     \* the result of the operation last applied to event

vars == <<val, built, out, failed, obs, event, evout>>

(* ------------------------------ bounds -------------------------------- *)

\* Largest value of the backing integer type u8.
U8_MAX == 255

\* Readers sharing one value (SpecShared).
NumReaders == 2

\* Largest raw integer of a shared value (SpecShared).
MaxSharedRaw == 7

U8 == 0..U8_MAX

\* Numbers a wire payload may carry: every u8 and the nearest numbers outside it.
Wire == (0 - 1)..(U8_MAX + 1)

Readers == 1..NumReaders

(* ------------------------------ helpers ------------------------------- *)

None == <<>>

Some(x) == <<x>>

Unwrap(o) == o[1]

\* The tuple-struct constructor `Self(value)`.
Self(T, value) == [type |-> T, f0 |-> value]

\* One item of a serde or formatter output.
Tok(t, s, n) == [t |-> t, s |-> s, n |-> n]

U8Tok(n) == Tok("U8", "", n)

StrTok(s) == Tok("Str", s, 0)

NewtypeStructTok(name) == Tok("NewtypeStruct", name, 0)

field(key, tok) == [key |-> key, tok |-> tok]

\* Formatter::debug_struct(label).field(..).field(..).finish()
debug_struct(label, fields) == [shape |-> "struct", label |-> label, fields |-> fields]

\* Formatter::debug_tuple(label).field(..).finish()
debug_tuple(label, fields) == [shape |-> "tuple", label |-> label, fields |-> fields]

Ok(x) == [ok |-> TRUE, value |-> x]

Err == [ok |-> FALSE, value |-> Self("", 0)]

(* ------------------- impl_typed!(Type, u8) expansion ------------------ *)

impl_typed_new(T, value) ==
    Self(T, value)

impl_typed_get(self) ==
    self.f0

impl_typed_from(T, value) ==
    Self(T, value)

impl_typed_into(value) ==
    impl_typed_get(value)

impl_typed_fmt(T, self, name) ==
    IF name # None
    THEN debug_struct(T,
             <<field("name", StrTok(Unwrap(name))),
               field("value", U8Tok(self.f0))>>)
    ELSE debug_tuple(T, <<field("", U8Tok(self.f0))>>)

\* The types that implement Default.
ImplsDefault == {"ActivityType", "PremiumTier"}

\* The types that derive PartialOrd and Ord.
ImplsOrd == {"VerificationLevel"}

HandWritten ==
    {"ActivityType", "AutoModerationEventType", "PremiumTier",
     "VerificationLevel", "ConnectionVisibility", "PremiumType"}

Typed == {"EntityType", "PrivacyLevel", "Status"}

Types == HandWritten \cup Typed

(* ---- ActivityType ---- *)
\* Mutant: a constructor that validates and maps unknown values to 0.
ActivityType_new_checked(activity_type) ==
    Self("ActivityType", IF activity_type <= 5 THEN activity_type ELSE 0)

\* pub const fn new(activity_type: u8) -> Self { Self(activity_type) }
ActivityType_new(activity_type) ==
    Self("ActivityType", activity_type)

ActivityType_PLAYING ==
    ActivityType_new(0)

ActivityType_STREAMING ==
    ActivityType_new(1)

ActivityType_LISTENING ==
    ActivityType_new(2)

ActivityType_WATCHING ==
    ActivityType_new(3)

ActivityType_CUSTOM ==
    ActivityType_new(4)

ActivityType_COMPETING ==
    ActivityType_new(5)

\* pub const fn get(&self) -> u8 { self.0 }
ActivityType_get(self) ==
    self.f0

\* pub const fn name(self): the match over the associated constants
ActivityType_name(self) ==
    IF self = ActivityType_PLAYING THEN Some("PLAYING")
    ELSE IF self = ActivityType_STREAMING THEN Some("STREAMING")
    ELSE IF self = ActivityType_LISTENING THEN Some("LISTENING")
    ELSE IF self = ActivityType_WATCHING THEN Some("WATCHING")
    ELSE IF self = ActivityType_CUSTOM THEN Some("CUSTOM")
    ELSE IF self = ActivityType_COMPETING THEN Some("COMPETING")
    ELSE None

\* impl Debug: debug_struct with name and value, or debug_tuple with the value
ActivityType_fmt(self) ==
    IF ActivityType_name(self) # None
    THEN debug_struct("ActivityType",
             <<field("name", StrTok(Unwrap(ActivityType_name(self)))),
               field("value", U8Tok(self.f0))>>)
    ELSE debug_tuple("ActivityType", <<field("", U8Tok(self.f0))>>)

\* Mutant: the wrong constant nominated as the default.
ActivityType_default_custom ==
    ActivityType_CUSTOM

\* impl Default
ActivityType_default ==
    ActivityType_PLAYING

\* impl From<u8> for ActivityType
ActivityType_from(value) ==
    Self("ActivityType", value)

\* impl From<ActivityType> for u8
ActivityType_into(value) ==
    ActivityType_get(value)

(* ---- AutoModerationEventType ---- *)
\* pub const fn new(auto_moderation_event_type: u8) -> Self { Self(auto_moderation_event_type) }
AutoModerationEventType_new(auto_moderation_event_type) ==
    Self("AutoModerationEventType", auto_moderation_event_type)

AutoModerationEventType_MESSAGE_SEND ==
    AutoModerationEventType_new(1)

\* pub const fn get(&self) -> u8 { self.0 }
AutoModerationEventType_get(self) ==
    self.f0

\* pub const fn name(self): the match over the associated constants
AutoModerationEventType_name(self) ==
    IF self = AutoModerationEventType_MESSAGE_SEND THEN Some("MESSAGE_SEND")
    ELSE None

\* impl Debug: debug_struct with name and value, or debug_tuple with the value
AutoModerationEventType_fmt(self) ==
    IF AutoModerationEventType_name(self) # None
    THEN debug_struct("AutoModerationEventType",
             <<field("name", StrTok(Unwrap(AutoModerationEventType_name(self)))),
               field("value", U8Tok(self.f0))>>)
    ELSE debug_tuple("AutoModerationEventType", <<field("", U8Tok(self.f0))>>)

\* impl From<u8> for AutoModerationEventType
AutoModerationEventType_from(value) ==
    Self("AutoModerationEventType", value)

\* impl From<AutoModerationEventType> for u8
AutoModerationEventType_into(value) ==
    AutoModerationEventType_get(value)

(* ---- PremiumTier ---- *)
\* pub const fn new(premium_tier: u8) -> Self { Self(premium_tier) }
PremiumTier_new(premium_tier) ==
    Self("PremiumTier", premium_tier)

PremiumTier_NONE ==
    PremiumTier_new(0)

PremiumTier_TIER_1 ==
    PremiumTier_new(1)

PremiumTier_TIER_2 ==
    PremiumTier_new(2)

PremiumTier_TIER_3 ==
    PremiumTier_new(3)

\* pub const fn get(&self) -> u8 { self.0 }
PremiumTier_get(self) ==
    self.f0

\* pub const fn name(self): the match over the associated constants
PremiumTier_name(self) ==
    IF self = PremiumTier_NONE THEN Some("NONE")
    ELSE IF self = PremiumTier_TIER_1 THEN Some("TIER_1")
    ELSE IF self = PremiumTier_TIER_2 THEN Some("TIER_2")
    ELSE IF self = PremiumTier_TIER_3 THEN Some("TIER_3")
    ELSE None

\* Mutant: the named rendering hides the raw value.
PremiumTier_fmt_name_only(self) ==
    IF PremiumTier_name(self) # None
    THEN debug_struct("PremiumTier",
             <<field("name", StrTok(Unwrap(PremiumTier_name(self))))>>)
    ELSE debug_tuple("PremiumTier", <<field("", U8Tok(self.f0))>>)

\* impl Debug: debug_struct with name and value, or debug_tuple with the value
PremiumTier_fmt(self) ==
    IF PremiumTier_name(self) # None
    THEN debug_struct("PremiumTier",
             <<field("name", StrTok(Unwrap(PremiumTier_name(self)))),
               field("value", U8Tok(self.f0))>>)
    ELSE debug_tuple("PremiumTier", <<field("", U8Tok(self.f0))>>)

\* impl Default
PremiumTier_default ==
    PremiumTier_NONE

\* impl From<u8> for PremiumTier
PremiumTier_from(value) ==
    Self("PremiumTier", value)

\* impl From<PremiumTier> for u8
PremiumTier_into(value) ==
    PremiumTier_get(value)

(* ---- VerificationLevel ---- *)
\* pub const fn new(verification_level: u8) -> Self { Self(verification_level) }
VerificationLevel_new(verification_level) ==
    Self("VerificationLevel", verification_level)

VerificationLevel_NONE ==
    VerificationLevel_new(0)

VerificationLevel_LOW ==
    VerificationLevel_new(1)

VerificationLevel_MEDIUM ==
    VerificationLevel_new(2)

VerificationLevel_HIGH ==
    VerificationLevel_new(3)

\* Mutant: a constant declared with the wrong number.
VerificationLevel_VERY_HIGH_off ==
    VerificationLevel_new(5)

VerificationLevel_VERY_HIGH ==
    VerificationLevel_new(4)

\* pub const fn get(&self) -> u8 { self.0 }
VerificationLevel_get(self) ==
    self.f0

\* pub const fn name(self): the match over the associated constants
VerificationLevel_name(self) ==
    IF self = VerificationLevel_NONE THEN Some("NONE")
    ELSE IF self = VerificationLevel_LOW THEN Some("LOW")
    ELSE IF self = VerificationLevel_MEDIUM THEN Some("MEDIUM")
    ELSE IF self = VerificationLevel_HIGH THEN Some("HIGH")
    ELSE IF self = VerificationLevel_VERY_HIGH THEN Some("VERY_HIGH")
    ELSE None

\* impl Debug: debug_struct with name and value, or debug_tuple with the value
VerificationLevel_fmt(self) ==
    IF VerificationLevel_name(self) # None
    THEN debug_struct("VerificationLevel",
             <<field("name", StrTok(Unwrap(VerificationLevel_name(self)))),
               field("value", U8Tok(self.f0))>>)
    ELSE debug_tuple("VerificationLevel", <<field("", U8Tok(self.f0))>>)

\* impl From<u8> for VerificationLevel
VerificationLevel_from(value) ==
    Self("VerificationLevel", value)

\* impl From<VerificationLevel> for u8
VerificationLevel_into(value) ==
    VerificationLevel_get(value)

(* ---- ConnectionVisibility ---- *)
\* pub const fn new(connection_visibility: u8) -> Self { Self(connection_visibility) }
ConnectionVisibility_new(connection_visibility) ==
    Self("ConnectionVisibility", connection_visibility)

ConnectionVisibility_NONE ==
    ConnectionVisibility_new(0)

ConnectionVisibility_EVERYONE ==
    ConnectionVisibility_new(1)

\* pub const fn get(&self) -> u8 { self.0 }
ConnectionVisibility_get(self) ==
    self.f0

\* pub const fn name(self): the match over the associated constants
ConnectionVisibility_name(self) ==
    IF self = ConnectionVisibility_EVERYONE THEN Some("EVERYONE")
    ELSE IF self = ConnectionVisibility_NONE THEN Some("NONE")
    ELSE None

\* Mutant: the unnamed rendering shows no raw value.
ConnectionVisibility_fmt_hide_raw(self) ==
    IF ConnectionVisibility_name(self) # None
    THEN debug_struct("ConnectionVisibility",
             <<field("name", StrTok(Unwrap(ConnectionVisibility_name(self)))),
               field("value", U8Tok(self.f0))>>)
    ELSE debug_tuple("ConnectionVisibility", <<>>)

\* impl Debug: debug_struct with name and value, or debug_tuple with the value
ConnectionVisibility_fmt(self) ==
    IF ConnectionVisibility_name(self) # None
    THEN debug_struct("ConnectionVisibility",
             <<field("name", StrTok(Unwrap(ConnectionVisibility_name(self)))),
               field("value", U8Tok(self.f0))>>)
    ELSE debug_tuple("ConnectionVisibility", <<field("", U8Tok(self.f0))>>)

\* impl From<u8> for ConnectionVisibility
ConnectionVisibility_from(value) ==
    Self("ConnectionVisibility", value)

\* impl From<ConnectionVisibility> for u8
ConnectionVisibility_into(value) ==
    ConnectionVisibility_get(value)

(* ---- PremiumType ---- *)
\* pub const fn new(premium_type: u8) -> Self { Self(premium_type) }
PremiumType_new(premium_type) ==
    Self("PremiumType", premium_type)

PremiumType_NONE ==
    PremiumType_new(0)

PremiumType_NITRO_CLASSIC ==
    PremiumType_new(1)

PremiumType_NITRO ==
    PremiumType_new(2)

\* Mutant: a constant declared with the number of another constant.
PremiumType_NITRO_BASIC_dup ==
    PremiumType_new(2)

PremiumType_NITRO_BASIC ==
    PremiumType_new(3)

\* pub const fn get(&self) -> u8 { self.0 }
PremiumType_get(self) ==
    self.f0

\* pub const fn name(self): the match over the associated constants
PremiumType_name(self) ==
    IF self = PremiumType_NITRO_BASIC THEN Some("NITRO_BASIC")
    ELSE IF self = PremiumType_NITRO_CLASSIC THEN Some("NITRO_CLASSIC")
    ELSE IF self = PremiumType_NITRO THEN Some("NITRO")
    ELSE IF self = PremiumType_NONE THEN Some("NONE")
    ELSE None

\* impl Debug: debug_struct with name and value, or debug_tuple with the value
PremiumType_fmt(self) ==
    IF PremiumType_name(self) # None
    THEN debug_struct("PremiumType",
             <<field("name", StrTok(Unwrap(PremiumType_name(self)))),
               field("value", U8Tok(self.f0))>>)
    ELSE debug_tuple("PremiumType", <<field("", U8Tok(self.f0))>>)

\* impl From<u8> for PremiumType
PremiumType_from(value) ==
    Self("PremiumType", value)

\* impl From<PremiumType> for u8
PremiumType_into(value) ==
    PremiumType_get(value)

(* ---- EntityType (new, get, From, Debug come from impl_typed!(EntityType, u8)) ---- *)
EntityType_new(value) ==
    impl_typed_new("EntityType", value)

EntityType_STAGE_INSTANCE ==
    EntityType_new(1)

EntityType_VOICE ==
    EntityType_new(2)

EntityType_EXTERNAL ==
    EntityType_new(3)

EntityType_get(self) ==
    impl_typed_get(self)

\* pub const fn name(self): the match over the associated constants
EntityType_name(self) ==
    IF self = EntityType_EXTERNAL THEN Some("EXTERNAL")
    ELSE IF self = EntityType_STAGE_INSTANCE THEN Some("STAGE_INSTANCE")
    ELSE IF self = EntityType_VOICE THEN Some("VOICE")
    ELSE None

EntityType_fmt(self) ==
    impl_typed_fmt("EntityType", self, EntityType_name(self))

EntityType_from(value) ==
    impl_typed_from("EntityType", value)

EntityType_into(value) ==
    impl_typed_into(value)

(* ---- PrivacyLevel (new, get, From, Debug come from impl_typed!(PrivacyLevel, u8)) ---- *)
PrivacyLevel_new(value) ==
    impl_typed_new("PrivacyLevel", value)

PrivacyLevel_GUILD_ONLY ==
    PrivacyLevel_new(2)

PrivacyLevel_get(self) ==
    impl_typed_get(self)

\* pub const fn name(self): the match over the associated constants
PrivacyLevel_name(self) ==
    IF self = PrivacyLevel_GUILD_ONLY THEN Some("GUILD_ONLY")
    ELSE None

PrivacyLevel_fmt(self) ==
    impl_typed_fmt("PrivacyLevel", self, PrivacyLevel_name(self))

PrivacyLevel_from(value) ==
    impl_typed_from("PrivacyLevel", value)

PrivacyLevel_into(value) ==
    impl_typed_into(value)

(* ---- Status (new, get, From, Debug come from impl_typed!(Status, u8)) ---- *)
Status_new(value) ==
    impl_typed_new("Status", value)

Status_SCHEDULED ==
    Status_new(1)

Status_ACTIVE ==
    Status_new(2)

Status_COMPLETED ==
    Status_new(3)

Status_CANCELLED ==
    Status_new(4)

Status_get(self) ==
    impl_typed_get(self)

\* Mutant: two arms of the match carry each other's string.
Status_name_swapped(self) ==
    IF self = Status_ACTIVE THEN Some("SCHEDULED")
    ELSE IF self = Status_SCHEDULED THEN Some("ACTIVE")
    ELSE IF self = Status_COMPLETED THEN Some("COMPLETED")
    ELSE IF self = Status_CANCELLED THEN Some("CANCELLED")
    ELSE None

\* pub const fn name(self): the match over the associated constants
Status_name(self) ==
    IF self = Status_ACTIVE THEN Some("ACTIVE")
    ELSE IF self = Status_SCHEDULED THEN Some("SCHEDULED")
    ELSE IF self = Status_COMPLETED THEN Some("COMPLETED")
    ELSE IF self = Status_CANCELLED THEN Some("CANCELLED")
    ELSE None

Status_fmt(self) ==
    impl_typed_fmt("Status", self, Status_name(self))

Status_from(value) ==
    impl_typed_from("Status", value)

Status_into(value) ==
    impl_typed_into(value)

(* ---------------- static dispatch on the type of a value --------------- *)

T_new(T, v) ==
    CASE T = "ActivityType" -> ActivityType_new(v)
      [] T = "AutoModerationEventType" -> AutoModerationEventType_new(v)
      [] T = "PremiumTier" -> PremiumTier_new(v)
      [] T = "VerificationLevel" -> VerificationLevel_new(v)
      [] T = "ConnectionVisibility" -> ConnectionVisibility_new(v)
      [] T = "PremiumType" -> PremiumType_new(v)
      [] T = "EntityType" -> EntityType_new(v)
      [] T = "PrivacyLevel" -> PrivacyLevel_new(v)
      [] T = "Status" -> Status_new(v)

T_from(T, v) ==
    CASE T = "ActivityType" -> ActivityType_from(v)
      [] T = "AutoModerationEventType" -> AutoModerationEventType_from(v)
      [] T = "PremiumTier" -> PremiumTier_from(v)
      [] T = "VerificationLevel" -> VerificationLevel_from(v)
      [] T = "ConnectionVisibility" -> ConnectionVisibility_from(v)
      [] T = "PremiumType" -> PremiumType_from(v)
      [] T = "EntityType" -> EntityType_from(v)
      [] T = "PrivacyLevel" -> PrivacyLevel_from(v)
      [] T = "Status" -> Status_from(v)

T_get(x) ==
    CASE x.type = "ActivityType" -> ActivityType_get(x)
      [] x.type = "AutoModerationEventType" -> AutoModerationEventType_get(x)
      [] x.type = "PremiumTier" -> PremiumTier_get(x)
      [] x.type = "VerificationLevel" -> VerificationLevel_get(x)
      [] x.type = "ConnectionVisibility" -> ConnectionVisibility_get(x)
      [] x.type = "PremiumType" -> PremiumType_get(x)
      [] x.type = "EntityType" -> EntityType_get(x)
      [] x.type = "PrivacyLevel" -> PrivacyLevel_get(x)
      [] x.type = "Status" -> Status_get(x)

T_name(x) ==
    CASE x.type = "ActivityType" -> ActivityType_name(x)
      [] x.type = "AutoModerationEventType" -> AutoModerationEventType_name(x)
      [] x.type = "PremiumTier" -> PremiumTier_name(x)
      [] x.type = "VerificationLevel" -> VerificationLevel_name(x)
      [] x.type = "ConnectionVisibility" -> ConnectionVisibility_name(x)
      [] x.type = "PremiumType" -> PremiumType_name(x)
      [] x.type = "EntityType" -> EntityType_name(x)
      [] x.type = "PrivacyLevel" -> PrivacyLevel_name(x)
      [] x.type = "Status" -> Status_name(x)

T_fmt(x) ==
    CASE x.type = "ActivityType" -> ActivityType_fmt(x)
      [] x.type = "AutoModerationEventType" -> AutoModerationEventType_fmt(x)
      [] x.type = "PremiumTier" -> PremiumTier_fmt(x)
      [] x.type = "VerificationLevel" -> VerificationLevel_fmt(x)
      [] x.type = "ConnectionVisibility" -> ConnectionVisibility_fmt(x)
      [] x.type = "PremiumType" -> PremiumType_fmt(x)
      [] x.type = "EntityType" -> EntityType_fmt(x)
      [] x.type = "PrivacyLevel" -> PrivacyLevel_fmt(x)
      [] x.type = "Status" -> Status_fmt(x)

T_into(x) ==
    CASE x.type = "ActivityType" -> ActivityType_into(x)
      [] x.type = "AutoModerationEventType" -> AutoModerationEventType_into(x)
      [] x.type = "PremiumTier" -> PremiumTier_into(x)
      [] x.type = "VerificationLevel" -> VerificationLevel_into(x)
      [] x.type = "ConnectionVisibility" -> ConnectionVisibility_into(x)
      [] x.type = "PremiumType" -> PremiumType_into(x)
      [] x.type = "EntityType" -> EntityType_into(x)
      [] x.type = "PrivacyLevel" -> PrivacyLevel_into(x)
      [] x.type = "Status" -> Status_into(x)

T_const(T, c) ==
    CASE T = "ActivityType" /\ c = "PLAYING" -> ActivityType_PLAYING
      [] T = "ActivityType" /\ c = "STREAMING" -> ActivityType_STREAMING
      [] T = "ActivityType" /\ c = "LISTENING" -> ActivityType_LISTENING
      [] T = "ActivityType" /\ c = "WATCHING" -> ActivityType_WATCHING
      [] T = "ActivityType" /\ c = "CUSTOM" -> ActivityType_CUSTOM
      [] T = "ActivityType" /\ c = "COMPETING" -> ActivityType_COMPETING
      [] T = "AutoModerationEventType" /\ c = "MESSAGE_SEND" -> AutoModerationEventType_MESSAGE_SEND
      [] T = "PremiumTier" /\ c = "NONE" -> PremiumTier_NONE
      [] T = "PremiumTier" /\ c = "TIER_1" -> PremiumTier_TIER_1
      [] T = "PremiumTier" /\ c = "TIER_2" -> PremiumTier_TIER_2
      [] T = "PremiumTier" /\ c = "TIER_3" -> PremiumTier_TIER_3
      [] T = "VerificationLevel" /\ c = "NONE" -> VerificationLevel_NONE
      [] T = "VerificationLevel" /\ c = "LOW" -> VerificationLevel_LOW
      [] T = "VerificationLevel" /\ c = "MEDIUM" -> VerificationLevel_MEDIUM
      [] T = "VerificationLevel" /\ c = "HIGH" -> VerificationLevel_HIGH
      [] T = "VerificationLevel" /\ c = "VERY_HIGH" -> VerificationLevel_VERY_HIGH
      [] T = "ConnectionVisibility" /\ c = "NONE" -> ConnectionVisibility_NONE
      [] T = "ConnectionVisibility" /\ c = "EVERYONE" -> ConnectionVisibility_EVERYONE
      [] T = "PremiumType" /\ c = "NONE" -> PremiumType_NONE
      [] T = "PremiumType" /\ c = "NITRO_CLASSIC" -> PremiumType_NITRO_CLASSIC
      [] T = "PremiumType" /\ c = "NITRO" -> PremiumType_NITRO
      [] T = "PremiumType" /\ c = "NITRO_BASIC" -> PremiumType_NITRO_BASIC
      [] T = "EntityType" /\ c = "STAGE_INSTANCE" -> EntityType_STAGE_INSTANCE
      [] T = "EntityType" /\ c = "VOICE" -> EntityType_VOICE
      [] T = "EntityType" /\ c = "EXTERNAL" -> EntityType_EXTERNAL
      [] T = "PrivacyLevel" /\ c = "GUILD_ONLY" -> PrivacyLevel_GUILD_ONLY
      [] T = "Status" /\ c = "SCHEDULED" -> Status_SCHEDULED
      [] T = "Status" /\ c = "ACTIVE" -> Status_ACTIVE
      [] T = "Status" /\ c = "COMPLETED" -> Status_COMPLETED
      [] T = "Status" /\ c = "CANCELLED" -> Status_CANCELLED

ConstNames(T) ==
    CASE T = "ActivityType" -> {"PLAYING", "STREAMING", "LISTENING", "WATCHING", "CUSTOM", "COMPETING"}
      [] T = "AutoModerationEventType" -> {"MESSAGE_SEND"}
      [] T = "PremiumTier" -> {"NONE", "TIER_1", "TIER_2", "TIER_3"}
      [] T = "VerificationLevel" -> {"NONE", "LOW", "MEDIUM", "HIGH", "VERY_HIGH"}
      [] T = "ConnectionVisibility" -> {"NONE", "EVERYONE"}
      [] T = "PremiumType" -> {"NONE", "NITRO_CLASSIC", "NITRO", "NITRO_BASIC"}
      [] T = "EntityType" -> {"STAGE_INSTANCE", "VOICE", "EXTERNAL"}
      [] T = "PrivacyLevel" -> {"GUILD_ONLY"}
      [] T = "Status" -> {"SCHEDULED", "ACTIVE", "COMPLETED", "CANCELLED"}

T_default(T) ==
    CASE T = "ActivityType" -> ActivityType_default
      [] T = "PremiumTier" -> PremiumTier_default

(* ------------------------------ derives -------------------------------- *)

\* Mutant: equality decided by the resolved name.
derive_PartialEq_by_name(a, b) ==
    T_name(a) = T_name(b)

\* #[derive(PartialEq, Eq)] on a newtype: the fields are compared.
derive_PartialEq(a, b) ==
    a.f0 = b.f0

\* #[derive(Hash)] on a newtype: the field is fed to the hasher; the result
\* is the sequence of u8 written.
derive_Hash(x) ==
    <<x.f0>>

\* Mutant: the comparison reversed.
derive_Ord_cmp_reversed(a, b) ==
    IF a.f0 > b.f0 THEN "Less"
    ELSE IF a.f0 = b.f0 THEN "Equal"
    ELSE "Greater"

\* #[derive(PartialOrd, Ord)] on a newtype: the fields are compared.
derive_Ord_cmp(a, b) ==
    IF a.f0 < b.f0 THEN "Less"
    ELSE IF a.f0 = b.f0 THEN "Equal"
    ELSE "Greater"

derive_PartialOrd_lt(a, b) ==
    derive_Ord_cmp(a, b) = "Less"

\* Mutant: a named value is written as its name, as a unit-variant enum is.
derive_Serialize_named(x) ==
    IF T_name(x) # None
    THEN <<StrTok(Unwrap(T_name(x)))>>
    ELSE <<NewtypeStructTok(x.type), U8Tok(x.f0)>>

\* #[derive(Serialize)] on a newtype: serialize_newtype_struct(name, &self.0).
derive_Serialize(x) ==
    <<NewtypeStructTok(x.type), U8Tok(x.f0)>>

\* What a serializer of the wire format writes for a token stream: a newtype
\* struct is transparent, a u8 is a number.
to_wire(tokens) ==
    [i \in 1..Len(SelectSeq(tokens, LAMBDA t : t.t # "NewtypeStruct")) |->
        SelectSeq(tokens, LAMBDA t : t.t # "NewtypeStruct")[i].n]

\* Mutant: a closed enum, which rejects a number that has no constant.
derive_Deserialize_closed(T, w) ==
    IF w \in U8 /\ T_name(Self(T, w)) # None THEN Ok(Self(T, w)) ELSE Err

\* #[derive(Deserialize)] on a newtype: the inner u8 is decoded from the
\* number and wrapped; a number outside u8 is rejected by the decoder of u8.
derive_Deserialize(T, w) ==
    IF w \in U8 THEN Ok(Self(T, w)) ELSE Err

\* The result of operation op on value x.
Apply(op, x) ==
    CASE op = "get" -> T_get(x)
      [] op = "name" -> T_name(x)
      [] op = "fmt" -> T_fmt(x)
      [] op = "into" -> T_into(x)
      [] op = "hash" -> derive_Hash(x)
      [] op = "serialize" -> derive_Serialize(x)

ReadOps == {"get", "name", "fmt", "into", "hash", "serialize"}

(* --------------------------- state machine ----------------------------- *)

NoValue == Self("", 0)

NoOut == [op |-> "none", arg |-> 0, res |-> 0]

NotBuilt == [path |-> "none", type |-> "", input |-> 0, const |-> ""]

NoObs == [op |-> "none", res |-> 0]

NoEvent == [id |-> <<>>]

NoEvOut == [op |-> "none", arg |-> 0, res |-> 0]

Init ==
    /\ val = NoValue
    /\ built = NotBuilt
    /\ out = NoOut
    /\ failed = FALSE
    /\ obs = [r \in Readers |-> NoObs]
    /\ event = NoEvent
    /\ evout = NoEvOut

Idle == val = NoValue /\ ~failed

\* let x = T::new(v);
New(T, v) ==
    /\ val' = T_new(T, v)
    /\ built' = [path |-> "new", type |-> T, input |-> v, const |-> ""]
    /\ UNCHANGED <<out, failed, obs, event, evout>>

\* let x = T::from(v);
FromU8(T, v) ==
    /\ val' = T_from(T, v)
    /\ built' = [path |-> "from", type |-> T, input |-> v, const |-> ""]
    /\ UNCHANGED <<out, failed, obs, event, evout>>

\* let x = T::C;
Const(T, c) ==
    /\ val' = T_const(T, c)
    /\ built' = [path |-> "const", type |-> T, input |-> 0, const |-> c]
    /\ UNCHANGED <<out, failed, obs, event, evout>>

\* let x = T::default();  only for the types that implement Default
Default(T) ==
    /\ T \in ImplsDefault
    /\ val' = T_default(T)
    /\ built' = [path |-> "default", type |-> T, input |-> 0, const |-> ""]
    /\ UNCHANGED <<out, failed, obs, event, evout>>

\* let x: T = decode(w);
Deserialize(T, w) ==
    /\ LET r == derive_Deserialize(T, w) IN
        /\ val' = IF r.ok THEN r.value ELSE NoValue
        /\ failed' = ~r.ok
    /\ built' = [path |-> "deserialize", type |-> T, input |-> w, const |-> ""]
    /\ UNCHANGED <<out, obs, event, evout>>

Ready == val # NoValue /\ out = NoOut

\* x.get(), x.name(), format!("{x:?}"), u8::from(x), hashing x, serializing x:
\* each takes &self or a copy of self.
Observe(op) ==
    /\ out' = [op |-> op, arg |-> 0, res |-> Apply(op, val)]
    /\ UNCHANGED <<val, built, failed, obs, event, evout>>

Get == Observe("get")

Name == Observe("name")

Fmt == Observe("fmt")

Into == Observe("into")

Hash == Observe("hash")

Serialize == Observe("serialize")

\* x == T::C for a constant C of x's type
EqConst(c) ==
    /\ out' = [op |-> "eq_const", arg |-> T_const(val.type, c).f0,
               res |-> derive_PartialEq(val, T_const(val.type, c))]
    /\ UNCHANGED <<val, built, failed, obs, event, evout>>

\* x == T::new(v2)
Eq(v2) ==
    /\ out' = [op |-> "eq", arg |-> v2,
               res |-> derive_PartialEq(val, T_new(val.type, v2))]
    /\ UNCHANGED <<val, built, failed, obs, event, evout>>

\* x.cmp(&T::new(v2)) and x < T::new(v2), for the types that derive Ord
Cmp(v2) ==
    /\ val.type \in ImplsOrd
    /\ out' = [op |-> "cmp", arg |-> v2,
               res |-> <<derive_Ord_cmp(val, T_new(val.type, v2)),
                         derive_PartialOrd_lt(val, T_new(val.type, v2))>>]
    /\ UNCHANGED <<val, built, failed, obs, event, evout>>

\* The result is consumed; the value stays in scope.
Discard ==
    /\ out # NoOut
    /\ out' = NoOut
    /\ UNCHANGED <<val, built, failed, obs, event, evout>>

\* The value (or the decode error) goes out of scope.
Drop ==
    /\ val # NoValue \/ failed
    /\ val' = NoValue
    /\ built' = NotBuilt
    /\ out' = NoOut
    /\ failed' = FALSE
    /\ UNCHANGED <<obs, event, evout>>

\* A value is constructed when none is in scope (Idle) and used when no result
\* is pending (Ready).
Next ==
    \/ Idle /\ \E T \in Types, v \in U8 : New(T, v)
    \/ Idle /\ \E T \in Types, v \in U8 : FromU8(T, v)
    \/ Idle /\ \E T \in Types : \E c \in ConstNames(T) : Const(T, c)
    \/ Idle /\ \E T \in Types : Default(T)
    \/ Idle /\ \E T \in Types, w \in Wire : Deserialize(T, w)
    \/ Ready /\ Get
    \/ Ready /\ Name
    \/ Ready /\ Fmt
    \/ Ready /\ Into
    \/ Ready /\ Hash
    \/ Ready /\ Serialize
    \/ Ready /\ \E c \in ConstNames(val.type) : EqConst(c)
    \/ Discard
    \/ Drop

Spec == Init /\ [][Next]_vars

(* Pairs of values of one type: equality and ordering. *)
NextPairs ==
    \/ Idle /\ \E T \in Types, v \in U8 : New(T, v)
    \/ Ready /\ \E v2 \in U8 : Eq(v2)
    \/ Ready /\ \E v2 \in U8 : Cmp(v2)
    \/ Discard

SpecPairs == Init /\ [][NextPairs]_vars

(* One value shared by concurrent readers. *)
InitShared ==
    /\ val \in {T_new(T, v) : T \in Types, v \in 0..MaxSharedRaw}
    /\ built = [path |-> "new", type |-> val.type, input |-> val.f0, const |-> ""]
    /\ out = NoOut
    /\ failed = FALSE
    /\ obs = [r \in Readers |-> NoObs]
    /\ event = NoEvent
    /\ evout = NoEvOut

\* Mutant: the operation takes &mut self and writes the value it reads.
Read_through_mut(r, op) ==
    /\ obs' = [obs EXCEPT ![r] = [op |-> op, res |-> Apply(op, val)]]
    /\ val' = Self(val.type, (val.f0 + 1) % (U8_MAX + 1))
    /\ UNCHANGED <<built, out, failed, event, evout>>

\* Reader r runs op on the shared value through &self (or on a copy of it):
\* nothing is written to the value.
Read(r, op) ==
    /\ obs' = [obs EXCEPT ![r] = [op |-> op, res |-> Apply(op, val)]]
    /\ val' = val
    /\ UNCHANGED <<built, out, failed, event, evout>>

\* Reader r compares the shared value with its own copy of it.
ReadEq(r) ==
    /\ obs' = [obs EXCEPT ![r] = [op |-> "eq", res |-> derive_PartialEq(val, val)]]
    /\ val' = val
    /\ UNCHANGED <<built, out, failed, event, evout>>

NextShared ==
    \/ \E r \in Readers, op \in ReadOps : Read(r, op)
    \/ \E r \in Readers : ReadEq(r)

SpecShared == InitShared /\ [][NextShared]_vars

(* ------------------------- GuildScheduledEvent -------------------------- *)

\* Largest raw integer of an event's entity_type and privacy_level (SpecEvent).
MaxKindRaw == 2

\* Largest raw integer of an event's status (SpecEvent).
MaxStatusRaw == 4

\* The fields of the struct, in declaration order.
FieldOrder ==
    <<"channel_id", "creator", "creator_id", "description", "entity_id",
      "entity_metadata", "entity_type", "guild_id", "id", "image", "name",
      "privacy_level", "scheduled_end_time", "scheduled_start_time",
      "status", "user_count">>

\* The fields of type Option<_>; each carries skip_serializing_if = "Option::is_none".
OptionalFields ==
    {"channel_id", "creator", "creator_id", "description", "entity_id",
     "entity_metadata", "image", "scheduled_end_time", "user_count"}

\* The fields whose type is one of the enumerations, with that type.
EnumFields ==
    [entity_type |-> "EntityType", privacy_level |-> "PrivacyLevel",
     status |-> "Status"]

\* What the other fields serialize to (their types are opaque here).
Payload ==
    [channel_id |-> <<NewtypeStructTok("Id"), StrTok("1")>>,
     creator |-> <<Tok("Struct", "User", 0)>>,
     creator_id |-> <<NewtypeStructTok("Id"), StrTok("5")>>,
     description |-> <<StrTok("this is a dance party for garfield lovers")>>,
     entity_id |-> <<NewtypeStructTok("Id"), StrTok("2")>>,
     entity_metadata |-> <<Tok("Struct", "EntityMetadata", 1)>>,
     guild_id |-> <<NewtypeStructTok("Id"), StrTok("3")>>,
     id |-> <<NewtypeStructTok("Id"), StrTok("4")>>,
     image |-> <<StrTok("COVER_INPUT")>>,
     name |-> <<StrTok("garfield dance party")>>,
     scheduled_end_time |-> <<StrTok("2022-01-02T00:00:00.000000+00:00")>>,
     scheduled_start_time |-> <<StrTok("2022-01-01T00:00:00.000000+00:00")>>,
     user_count |-> <<Tok("U64", "", 1)>>]

\* The struct literal: the optional fields in `present` are Some(..), the others None.
GuildScheduledEvent(present, entity_type, privacy_level, status) ==
    [f \in {FieldOrder[i] : i \in 1..Len(FieldOrder)} |->
        CASE f = "entity_type" -> entity_type
          [] f = "privacy_level" -> privacy_level
          [] f = "status" -> status
          [] f \in OptionalFields ->
                IF f \in present THEN Some(Payload[f]) ELSE None
          [] OTHER -> Payload[f]]

\* Mutant: the attribute is missing, so an absent field is written too.
skip_serializing_never(e, f) ==
    FALSE

\* #[serde(skip_serializing_if = "Option::is_none")]
skip_serializing_if(e, f) ==
    f \in OptionalFields /\ e[f] = None

\* What one field that is not skipped serializes to.
field_tokens(e, f) ==
    IF f \in OptionalFields
    THEN IF e[f] = None
         THEN <<Tok("None", "", 0)>>
         ELSE <<Tok("Some", "", 0)>> \o Unwrap(e[f])
    ELSE IF f \in DOMAIN EnumFields
         THEN derive_Serialize(e[f])
         ELSE e[f]

\* #[derive(Serialize)] on the struct: the header with the number of fields
\* that are not skipped, then those fields in declaration order.
GuildScheduledEvent_serialize(e) ==
    LET kept == SelectSeq(FieldOrder, LAMBDA f : ~skip_serializing_if(e, f)) IN
        [name |-> "GuildScheduledEvent",
         len |-> Cardinality({i \in 1..Len(FieldOrder) :
                                ~skip_serializing_if(e, FieldOrder[i])}),
         entries |-> [i \in 1..Len(kept) |->
                        [key |-> kept[i], toks |-> field_tokens(e, kept[i])]]]

\* #[derive(Deserialize)] on the struct: each field is looked up by its key;
\* a missing Option field is None, a missing required field is an error, and
\* an enumeration is decoded from its number.
GuildScheduledEvent_deserialize(ser) ==
    LET keys == {ser.entries[i].key : i \in 1..Len(ser.entries)}
        toks(f) == (CHOOSE i \in 1..Len(ser.entries) : ser.entries[i].key = f)
        entry(f) == ser.entries[toks(f)].toks
        number(f) == entry(f)[Len(entry(f))].n
        required == {FieldOrder[i] : i \in 1..Len(FieldOrder)} \ OptionalFields
        decoded(f) == derive_Deserialize(EnumFields[f], number(f))
    IN  IF /\ required \subseteq keys
           /\ \A f \in DOMAIN EnumFields : decoded(f).ok
        THEN [ok |-> TRUE,
              value |-> [f \in {FieldOrder[i] : i \in 1..Len(FieldOrder)} |->
                  IF f \in DOMAIN EnumFields THEN decoded(f).value
                  ELSE IF f \in OptionalFields
                       THEN IF f \in keys /\ entry(f)[1].t = "Some"
                            THEN Some(SubSeq(entry(f), 2, Len(entry(f))))
                            ELSE None
                       ELSE entry(f)]]
        ELSE [ok |-> FALSE, value |-> NoEvent]

\* Mutant: the documented lifecycle enforced on assignment.
status_assign_lifecycle(e, s) ==
    IF \/ e.status = Status_SCHEDULED /\ s \in {Status_ACTIVE, Status_CANCELLED}
       \/ e.status = Status_ACTIVE /\ s = Status_COMPLETED
    THEN [e EXCEPT !["status"] = s]
    ELSE e

\* event.status = s;  the field is `pub status: Status`
status_assign(e, s) ==
    [e EXCEPT !["status"] = s]

HasEvent == event # NoEvent

EvReady == HasEvent /\ evout = NoEvOut

\* let event = GuildScheduledEvent { .. };
NewEvent(present, et, pl, st) ==
    /\ event' = GuildScheduledEvent(present, EntityType_new(et),
                                    PrivacyLevel_new(pl), Status_new(st))
    /\ evout' = NoEvOut
    /\ UNCHANGED <<val, built, out, failed, obs>>

\* event.status = Status::new(s);  evout keeps the event as it was before
SetStatus(s) ==
    /\ event' = status_assign(event, Status_new(s))
    /\ evout' = [op |-> "set_status", arg |-> s, res |-> event]
    /\ UNCHANGED <<val, built, out, failed, obs>>

\* Serializing the event.
SerializeEvent ==
    /\ evout' = [op |-> "serialize", arg |-> 0,
                 res |-> GuildScheduledEvent_serialize(event)]
    /\ UNCHANGED <<val, built, out, failed, obs, event>>

\* Deserializing what was just serialized.
DeserializeEvent ==
    /\ evout.op = "serialize"
    /\ evout' = [op |-> "deserialize", arg |-> evout.res.len,
                 res |-> GuildScheduledEvent_deserialize(evout.res)]
    /\ UNCHANGED <<val, built, out, failed, obs, event>>

\* The result is consumed; the event stays in scope.
DiscardEvent ==
    /\ evout # NoEvOut
    /\ evout' = NoEvOut
    /\ UNCHANGED <<val, built, out, failed, obs, event>>

\* The event goes out of scope.
DropEvent ==
    /\ EvReady
    /\ event' = NoEvent
    /\ UNCHANGED <<val, built, out, failed, obs, evout>>

NextEvent ==
    \/ ~HasEvent /\ \E present \in SUBSET OptionalFields,
                       et \in 0..MaxKindRaw, pl \in 0..MaxKindRaw,
                       st \in 0..MaxStatusRaw :
                           NewEvent(present, et, pl, st)
    \/ EvReady /\ \E s \in 0..MaxStatusRaw : SetStatus(s)
    \/ EvReady /\ SerializeEvent
    \/ HasEvent /\ DeserializeEvent
    \/ DiscardEvent
    \/ DropEvent

SpecEvent == Init /\ [][NextEvent]_vars

(* ====================== the claims: what is expected =================== *)

DeclaredTable ==
    [ActivityType |-> {<<"PLAYING", 0>>, <<"STREAMING", 1>>, <<"LISTENING", 2>>, <<"WATCHING", 3>>, <<"CUSTOM", 4>>, <<"COMPETING", 5>>},
     AutoModerationEventType |-> {<<"MESSAGE_SEND", 1>>},
     PremiumTier |-> {<<"NONE", 0>>, <<"TIER_1", 1>>, <<"TIER_2", 2>>, <<"TIER_3", 3>>},
     VerificationLevel |-> {<<"NONE", 0>>, <<"LOW", 1>>, <<"MEDIUM", 2>>, <<"HIGH", 3>>, <<"VERY_HIGH", 4>>},
     ConnectionVisibility |-> {<<"NONE", 0>>, <<"EVERYONE", 1>>},
     PremiumType |-> {<<"NONE", 0>>, <<"NITRO_CLASSIC", 1>>, <<"NITRO", 2>>, <<"NITRO_BASIC", 3>>},
     EntityType |-> {<<"STAGE_INSTANCE", 1>>, <<"VOICE", 2>>, <<"EXTERNAL", 3>>},
     PrivacyLevel |-> {<<"GUILD_ONLY", 2>>},
     Status |-> {<<"SCHEDULED", 1>>, <<"ACTIVE", 2>>, <<"COMPLETED", 3>>, <<"CANCELLED", 4>>}]

\* The declared name-to-value table of each type, as the specification lists it.
DeclaredValue(T, c) ==
    (CHOOSE p \in DeclaredTable[T] : p[1] = c)[2]

ExpectedName(T, v) ==
    IF \E p \in DeclaredTable[T] : p[2] = v
    THEN Some((CHOOSE p \in DeclaredTable[T] : p[2] = v)[1])
    ELSE None

\* The constant each domain nominates as its default.
NominatedDefault == [ActivityType |-> "PLAYING", PremiumTier |-> "NONE"]

RawPaths == {"new", "from", "deserialize"}

Alive == val # NoValue

\* C1: for each of the six hand-written types and every u8 v, T::new(v).get()
\* and u8::from(T::from(v)) are v, T::from(v) is T::new(v), and u8::from(x)
\* is x.get().
C1_RoundTrip ==
    (Alive /\ built.type \in HandWritten) =>
        /\ built.path = "new" =>
            /\ val = T_from(built.type, built.input)
            /\ out.op \in {"get", "into"} => out.res = built.input
        /\ built.path = "from" =>
            /\ val = T_new(built.type, built.input)
            /\ out.op \in {"get", "into"} => out.res = built.input
        /\ out.op = "into" => out.res = T_get(val)
        /\ out.op = "get" => out.res = T_into(val)

C1_Witness ==
    /\ built.path = "from"
    /\ built.type = "AutoModerationEventType"
    /\ built.input = 250
    /\ out.op = "into"
    /\ out.res = 250

\* C2: name() of the value built from v is Some(n) exactly when the declared
\* table of the type lists v under n, and None for every other v.
C2_NameSound ==
    (Alive /\ built.path \in {"new", "from"} /\ out.op = "name") =>
        out.res = ExpectedName(built.type, built.input)

C2_Witness ==
    /\ built.path = "new"
    /\ built.type = "Status"
    /\ built.input = 1
    /\ out.op = "name"
    /\ out.res = Some("SCHEDULED")

\* C3: serializing the value built from v writes the single number v (a
\* newtype marker and one u8, no string, no structure); decoding the number v
\* gives the value built from v; decode then encode reproduces the number.
C3_WireShape ==
    /\ (Alive /\ out.op = "serialize") =>
        /\ out.res = <<NewtypeStructTok(built.type), U8Tok(val.f0)>>
        /\ to_wire(out.res) = <<val.f0>>
        /\ built.path \in RawPaths => to_wire(out.res) = <<built.input>>
    /\ (built.path = "deserialize" /\ built.input \in U8) =>
        /\ ~failed
        /\ val = T_new(built.type, built.input)

C3_Witness ==
    /\ built.path = "deserialize"
    /\ built.type = "ActivityType"
    /\ built.input = 2
    /\ out.op = "serialize"
    /\ to_wire(out.res) = <<2>>

\* C4: for a u8 input nothing fails: construction yields a value holding the
\* input, every operation yields a result of its normal kind, and a value
\* that has no constant has name None and is not rejected.
C4_NoFailure ==
    (built.path # "none" /\ built.input \in U8) =>
        /\ ~failed
        /\ Alive
        /\ val.type = built.type
        /\ val.f0 \in U8
        /\ built.path \in RawPaths => val.f0 = built.input
        /\ out.op \in {"get", "into"} => out.res \in U8
        /\ out.op = "name" =>
            /\ Len(out.res) \in {0, 1}
            /\ ExpectedName(val.type, val.f0) = None => out.res = None
        /\ out.op = "fmt" => out.res.shape \in {"struct", "tuple"}
        /\ out.op = "hash" => out.res \in Seq(U8)
        /\ out.op = "serialize" => Len(out.res) = 2

C4_Witness ==
    /\ built.path = "deserialize"
    /\ built.type = "PremiumTier"
    /\ built.input = 250
    /\ ~failed
    /\ out.op = "name"
    /\ out.res = None

\* C5: the value built from v1 equals the value built from v2 exactly when
\* v1 = v2, named or not.
C5_EqIffRaw ==
    (Alive /\ out.op = "eq") => (out.res <=> (built.input = out.arg))

C5_Witness ==
    /\ built.type = "PremiumTier"
    /\ built.input = 250
    /\ out.op = "eq"
    /\ out.arg = 251
    /\ out.res = FALSE

\* C6: a value taken from a named constant and the value built from the
\* constant's declared number are the same value and give the same get, hash,
\* name, debug output and comparisons.
C6_ConstIsRaw ==
    (Alive /\ built.path = "const") =>
        LET c == DeclaredValue(built.type, built.const)
            raw == T_from(built.type, c)
        IN  /\ val = raw
            /\ out.op \in {"get", "into"} => out.res = c
            /\ out.op = "hash" => out.res = derive_Hash(raw)
            /\ out.op = "name" =>
                out.res = T_name(raw) /\ out.res = Some(built.const)
            /\ out.op = "fmt" => out.res = T_fmt(raw)
            /\ out.op = "eq_const" =>
                (out.res <=> derive_PartialEq(raw, T_from(built.type, out.arg)))

C6_Witness ==
    /\ built.path = "const"
    /\ built.type = "VerificationLevel"
    /\ built.const = "VERY_HIGH"
    /\ out.op = "fmt"
    /\ out.res.shape = "struct"

\* C7: VerificationLevel::new(a) < VerificationLevel::new(b) exactly when
\* a < b, for named and unnamed values; cmp agrees.
C7_OrderByRaw ==
    (Alive /\ out.op = "cmp") =>
        /\ built.type = "VerificationLevel"
        /\ out.res[2] <=> (built.input < out.arg)
        /\ (out.res[1] = "Less") <=> (built.input < out.arg)
        /\ (out.res[1] = "Equal") <=> (built.input = out.arg)
        /\ (out.res[1] = "Greater") <=> (built.input > out.arg)

C7_Witness ==
    /\ built.type = "VerificationLevel"
    /\ built.input = 3
    /\ out.op = "cmp"
    /\ out.arg = 4
    /\ out.res[2] = TRUE

\* C8: default() exists only for ActivityType and PremiumTier, and the raw
\* integer of the default is that of the nominated constant (PLAYING, NONE).
C8_Default ==
    built.path = "default" =>
        /\ built.type \in DOMAIN NominatedDefault
        /\ built.type \notin {"AutoModerationEventType", "VerificationLevel",
                               "ConnectionVisibility", "PremiumType"}
        /\ val.f0 = DeclaredValue(built.type, NominatedDefault[built.type])
        /\ out.op = "get" =>
            out.res = DeclaredValue(built.type, NominatedDefault[built.type])
        /\ out.op = "name" => out.res = Some(NominatedDefault[built.type])

C8_Witness ==
    /\ built.path = "default"
    /\ built.type = "ActivityType"
    /\ out.op = "name"
    /\ out.res = Some("PLAYING")

\* C9: whatever the readers of a shared value do and in whatever order, the
\* value keeps the raw integer it was built with, and two readers that ran the
\* same operation saw the same result, which is the result on the built value.
C9_Immutable ==
    /\ val = T_new(built.type, built.input)
    /\ \A r \in Readers :
        obs[r].op \in ReadOps =>
            obs[r].res = Apply(obs[r].op, T_new(built.type, built.input))
    /\ \A r \in Readers : obs[r].op = "eq" => obs[r].res = TRUE
    /\ \A r1, r2 \in Readers :
        obs[r1].op = obs[r2].op => obs[r1].res = obs[r2].res

C9_Witness ==
    /\ built.type = "PremiumType"
    /\ built.input = 3
    /\ \A r \in Readers : obs[r].op = "fmt"

\* The generic reference enumeration, given a type name and its table.
Ref_new(T, v) == [type |-> T, f0 |-> v]

Ref_get(x) == x.f0

Ref_name(x) == ExpectedName(x.type, x.f0)

Ref_fmt(x) ==
    IF Ref_name(x) # None
    THEN [shape |-> "struct", label |-> x.type,
          fields |-> <<[key |-> "name", tok |-> StrTok(Ref_name(x)[1])],
                       [key |-> "value", tok |-> U8Tok(x.f0)]>>]
    ELSE [shape |-> "tuple", label |-> x.type,
          fields |-> <<[key |-> "", tok |-> U8Tok(x.f0)]>>]

Ref_serialize(x) == <<NewtypeStructTok(x.type), U8Tok(x.f0)>>

\* The integer the reference is built from, for each construction path.
Ref_input ==
    CASE built.path \in RawPaths -> built.input
      [] built.path = "const" -> DeclaredValue(built.type, built.const)
      [] built.path = "default" ->
            DeclaredValue(built.type, NominatedDefault[built.type])

\* C10: all nine types, hand-written or generated with impl_typed!, give the
\* results of the generic reference for new, From<u8>, get, Into<u8>, name,
\* equality, debug formatting and serialization.
C10_Uniform ==
    Alive =>
        LET ref == Ref_new(built.type, Ref_input) IN
            /\ val = ref
            /\ out.op \in {"get", "into"} => out.res = Ref_get(ref)
            /\ out.op = "name" => out.res = Ref_name(ref)
            /\ out.op = "fmt" => out.res = Ref_fmt(ref)
            /\ out.op = "serialize" => out.res = Ref_serialize(ref)
            /\ out.op = "eq_const" => (out.res <=> (Ref_get(ref) = out.arg))

C10_Witness ==
    /\ built.path = "from"
    /\ built.type = "EntityType"
    /\ built.input = 3
    /\ out.op = "fmt"
    /\ out.res.shape = "struct"

\* The transitions the documentation of Status names.
LifecycleStep(from, to) ==
    \/ from = 1 /\ to \in {2, 4}
    \/ from = 2 /\ to = 3

C12_DebugShapes ==
    (Alive /\ out.op = "fmt") =>
        IF T_name(val) # None
        THEN out.res =
                [shape |-> "struct", label |-> val.type,
                 fields |-> <<[key |-> "name", tok |-> StrTok(T_name(val)[1])],
                              [key |-> "value", tok |-> U8Tok(val.f0)]>>]
        ELSE out.res =
                [shape |-> "tuple", label |-> val.type,
                 fields |-> <<[key |-> "", tok |-> U8Tok(val.f0)]>>]

C12_Witness ==
    /\ built.path = "new"
    /\ built.type = "ConnectionVisibility"
    /\ built.input = 250
    /\ out.op = "fmt"
    /\ out.res.shape = "tuple"

\* The constants of the type of val whose value is val.
ConstantsOf ==
    {c \in ConstNames(built.type) : T_const(built.type, c) = val}

\* C13: in every type no raw value is declared under two constants, and no
\* name stands for two raw values: a value is the value of at most one
\* constant, a constant's value is that of no other constant, and a name that
\* name() returns is the name of the one constant holding the value.
C13_TableOneToOne ==
    Alive =>
        /\ Cardinality(ConstantsOf) <= 1
        /\ built.path = "const" => ConstantsOf = {built.const}
        /\ (out.op = "name" /\ out.res # None) => ConstantsOf = {out.res[1]}
        /\ (out.op = "name" /\ out.res = None) => ConstantsOf = {}

C13_Witness ==
    /\ built.path = "const"
    /\ built.type = "PremiumType"
    /\ built.const = "NITRO_BASIC"
    /\ out.op = "name"
    /\ out.res = Some("NITRO_BASIC")

AbsentFields == {f \in OptionalFields : event[f] = None}

\* C14: a serialized event carries, in declaration order, the seven required
\* fields and the optional fields that are present; the field count is 16
\* minus the number of absent optional fields (12 with four absent); the three
\* enumeration fields are written as their raw integers; and deserializing
\* the output gives back the event, the omitted fields absent.
C14_EventWire ==
    /\ evout.op = "serialize" =>
        LET ser == evout.res IN
            /\ [i \in 1..Len(ser.entries) |-> ser.entries[i].key]
                    = SelectSeq(FieldOrder, LAMBDA f : f \notin AbsentFields)
            /\ ser.len = 16 - Cardinality(AbsentFields)
            /\ ser.len = 7 + Cardinality(OptionalFields \ AbsentFields)
            /\ Len(ser.entries) = ser.len
            /\ Cardinality(AbsentFields) = 4 => ser.len = 12
            /\ \A i \in 1..Len(ser.entries) :
                ser.entries[i].key \in {"entity_type", "privacy_level", "status"} =>
                    /\ ser.entries[i].toks[Len(ser.entries[i].toks)]
                            = U8Tok(event[ser.entries[i].key].f0)
                    /\ to_wire(ser.entries[i].toks)
                            = <<event[ser.entries[i].key].f0>>
    /\ evout.op = "deserialize" =>
        /\ evout.res.ok
        /\ evout.res.value = event
        /\ \A f \in AbsentFields : evout.res.value[f] = None

C14_Witness ==
    /\ evout.op = "deserialize"
    /\ evout.arg = 12
    /\ evout.res.ok
    /\ AbsentFields = {"creator", "creator_id", "entity_metadata", "scheduled_end_time"}
    /\ event.entity_type = EntityType_STAGE_INSTANCE
    /\ event.privacy_level = PrivacyLevel_GUILD_ONLY
    /\ event.status = Status_COMPLETED

=============================================================================
